---- MODULE Spec2Model ----
(***************************************************************************)
(* Stack-height analyser of src/stack_height/max_height.rs.                *)
(*                                                                         *)
(* max_stack_height(func_idx, module) scans the opcodes of one function    *)
(* body once, keeping a Context (abstract height + control-frame stack)    *)
(* and a running maximum.  One step of its loop (sample the maximum,       *)
(* dispatch the opcode at pc, pc += 1) is one action of this module; the   *)
(* action is chosen by the match arm the opcode falls in.  The body is     *)
(* read one opcode per step, so the opcode at pc is drawn when the step    *)
(* is taken, and the body ends (pc >= opcodes.elements().len()) where the  *)
(* run takes Finish: the runs are those over every body of at most         *)
(* len_bound opcodes.                                                      *)
(*                                                                         *)
(* A Rust panic (expect / panic! / index out of bounds / debug_assert!)    *)
(* ends the analysis: status = "panicked", panic = the message.            *)
(*                                                                         *)
(* Beside the analyser the module carries `ref`, the operand stack of the  *)
(* WebAssembly validation algorithm run in lockstep over the same opcodes: *)
(* it says whether the body read so far is a prefix of a validated body,   *)
(* what the real operand-stack depth is, and whether the current program   *)
(* point can be reached by an execution.  The analyser never reads it.     *)
(***************************************************************************)
EXTENDS Integers, Sequences, FiniteSets, TLC

(* ---------------------------- bounds ----------------------------------- *)
\* longest function body (opcodes.elements().len()) explored by Spec
MaxLen == 4
\* longest straight-line body explored by SpecStraight
StraightLen == 8
\* deepest block/loop/if nesting explored (frames beside the function frame)
MaxNest == 2
\* largest relative branch depth an opcode carries
MaxLabel == 2
\* longest body of a function analysed beside other analyses (SpecPar)
ParLen == 2
\* longest body of the module's code section analysed alone (SpecSolo)
SoloLen == 4

NoPanic == ""

(* ---------------------------- the module ------------------------------- *)
\* type_section.types(): params().len() and return_type().is_some() of
\* each function type, entry t of the section at position t + 1.
\* Type 0 is () -> (), type 1 is (i32, i32) -> i32, type 2 is (i32) -> ().
types == << [params |-> 0, return_type |-> FALSE],
            [params |-> 2, return_type |-> TRUE],
            [params |-> 1, return_type |-> FALSE] >>

NumTypes == Len(types)

\* func_section.entries(): type_ref() of function f at position f + 1.
\* Function 0 has type 1 and function 1 has type 0, as in a module whose
\* function and type indices do not coincide.
func_section == << 1, 0 >>

NumFuncs == Len(func_section)

VARIABLES
    func_idx,          \* the function analysed
    debug_assertions,  \* cfg!(debug_assertions) of the build
    len_bound,         \* the longest body this run reads (fixed by Init)
    pc,                \* index of the next opcode
    ctx,               \* Context: [height, control_stack, panic]
    max_height,        \* running maximum
    status,            \* "running" | "returned" | "panicked"
    panic,             \* message of the panic that ended the run, or NoPanic
    op,                \* the opcode dispatched last (opcodes.elements()[pc-1])
    ref,               \* reference validation state (see RefInit)
    code_section,      \* code_section.bodies(): the opcodes of function f at
                       \* position f + 1; <<>> where the body is read one
                       \* opcode per step
    suspended          \* the locals of the other calls of max_stack_height
                       \* in progress, which are not taking the step

vars == <<func_idx, debug_assertions, len_bound, pc, ctx, max_height, status, panic, op, ref,
          code_section, suspended>>

(* ---------------------------- opcodes ---------------------------------- *)
\* An opcode is [name, x, targets]: x is the immediate (branch depth,
\* function/type index, or 1 for a block type with a result and 0 for
\* BlockType::NoResult), targets the br_table target list.
Opc(n, x) == [name |-> n, x |-> x, targets |-> <<>>]

Labels == 0..MaxLabel
BlockTypes == {0, 1}

NoOp == Opc("none", 0)

(* ------------------------------ Frame ---------------------------------- *)
Frame(p, e, b, s) ==
    [is_polymorphic |-> p, end_arity |-> e, branch_arity |-> b, start_height |-> s]

(* ----------------------------- Context --------------------------------- *)
\* Context::new
Context_new == [height |-> 0, control_stack |-> <<>>, panic |-> NoPanic]

Panicked(c, msg) == [c EXCEPT !.panic = msg]

\* Context::height
height(c) == c.height

\* The panic of Context::frame(rel_depth), NoPanic when it returns a frame.
frame_panic(c, rel_depth) ==
    IF Len(c.control_stack) = 0 THEN "control stack is empty?"
    ELSE IF rel_depth > Len(c.control_stack) - 1 THEN "control stack out-of-bounds"
    ELSE NoPanic

\* Context::frame(rel_depth) where it does not panic: control_stack[last_idx - rel_depth]
\* (control_stack is 1-based here, so last_idx is Len).
frame(c, rel_depth) == c.control_stack[Len(c.control_stack) - rel_depth]

\* Context::mark_unreachable
mark_unreachable(c) ==
    IF c.panic # NoPanic THEN c
    ELSE IF Len(c.control_stack) = 0 THEN Panicked(c, "stack must be non-empty")
    ELSE [c EXCEPT !.control_stack[Len(c.control_stack)].is_polymorphic = TRUE]

\* Context::push_frame
push_frame(c, f) ==
    IF c.panic # NoPanic THEN c
    ELSE [c EXCEPT !.control_stack = Append(c.control_stack, f)]

\* Context::pop_frame: the context after the pop (the frame popped is
\* frame(c, 0) of the context before).
pop_frame(c) ==
    IF c.panic # NoPanic THEN c
    ELSE IF Len(c.control_stack) = 0 THEN Panicked(c, "stack must be non-empty")
    ELSE [c EXCEPT !.control_stack = SubSeq(c.control_stack, 1, Len(c.control_stack) - 1)]

\* trunc that leaves the height as it is
trunc_keeps(c, new_height) == c

\* Context::trunc
trunc(c, new_height) ==
    IF c.panic # NoPanic THEN c ELSE [c EXCEPT !.height = new_height]

\* Context::push_values.  checked_add panics ("stack overflow") past
\* u32::MAX = 2^32 - 1; every opcode pushes at most one value, so the height
\* is at most the number of opcodes dispatched and the panic needs a body of
\* 2^32 opcodes: it is out of reach of every body explored here.
push_values(c, value_count) ==
    IF c.panic # NoPanic THEN c
    ELSE [c EXCEPT !.height = c.height + value_count]

\* Context::pop_values
pop_values(c, value_count) ==
    IF c.panic # NoPanic THEN c
    ELSE IF frame_panic(c, 0) # NoPanic THEN Panicked(c, frame_panic(c, 0))
    ELSE IF c.height = frame(c, 0).start_height
         THEN IF frame(c, 0).is_polymorphic
              THEN c
              ELSE Panicked(c, "trying to pop more values than pushed")
    ELSE IF c.height < value_count THEN Panicked(c, "stack underflow")
    ELSE [c EXCEPT !.height = c.height - value_count]

(* ------------------- the arms of the opcode match ---------------------- *)
\* func_arity of the function analysed (lines 130-131, 141-145).
func_sig_idx == func_section[func_idx + 1]
func_signature == types[func_sig_idx + 1]
func_arity == IF func_signature.return_type THEN 1 ELSE 0

\* Block(ty) | Loop(ty) | If(ty) with a loop's branch_arity taken from its
\* result type, as a block's
arm_Block_loop_carries(c, o) ==
    LET end_arity == IF o.x = 0 THEN 0 ELSE 1
    IN push_frame(c, Frame(FALSE, end_arity, end_arity, height(c)))

\* Block(ty) | Loop(ty) | If(ty)
arm_Block(c, o) ==
    LET end_arity == IF o.x = 0 THEN 0 ELSE 1
        branch_arity == IF o.name = "Loop" THEN 0 ELSE end_arity
    IN push_frame(c, Frame(FALSE, end_arity, branch_arity, height(c)))

\* Else that closes the frame of the then arm
arm_Else_pops(c, o) == pop_frame(c)

\* Else
arm_Else(c, o) == c

\* End
arm_End(c, o) ==
    IF Len(c.control_stack) = 0 THEN pop_frame(c)
    ELSE LET fr == frame(c, 0)
         IN push_values(trunc(pop_frame(c), fr.start_height), fr.end_arity)

\* Unreachable
arm_Unreachable(c, o) == mark_unreachable(c)

\* Br(target)
arm_Br(c, o) ==
    IF frame_panic(c, o.x) # NoPanic THEN Panicked(c, frame_panic(c, o.x))
    ELSE mark_unreachable(pop_values(c, frame(c, o.x).branch_arity))

\* BrIf(target)
arm_BrIf(c, o) ==
    IF frame_panic(c, o.x) # NoPanic THEN Panicked(c, frame_panic(c, o.x))
    ELSE pop_values(pop_values(c, frame(c, o.x).branch_arity), 1)

\* The debug_assert! of BrTable: the closure maps the targets lazily and
\* `all` stops at the first arity that differs, so the first target that
\* is out of bounds or differs decides the panic.
RECURSIVE br_table_assert(_, _, _, _)
br_table_assert(c, targets, i, arity_of_default) ==
    IF i > Len(targets) THEN NoPanic
    ELSE IF frame_panic(c, targets[i]) # NoPanic THEN frame_panic(c, targets[i])
    ELSE IF frame(c, targets[i]).branch_arity # arity_of_default
         THEN "assertion failed"
    ELSE br_table_assert(c, targets, i + 1, arity_of_default)

\* BrTable(ref targets, default_target)
arm_BrTable(c, o) ==
    IF frame_panic(c, o.x) # NoPanic THEN Panicked(c, frame_panic(c, o.x))
    ELSE LET arity_of_default == frame(c, o.x).branch_arity
             failed == IF debug_assertions
                       THEN br_table_assert(c, o.targets, 1, arity_of_default)
                       ELSE NoPanic
         IN IF failed # NoPanic THEN Panicked(c, failed)
            ELSE mark_unreachable(pop_values(c, arity_of_default))

\* Return
arm_Return(c, o) == mark_unreachable(pop_values(c, func_arity))

\* Call(x) | CallIndirect(x, _)
arm_Call(c, o) ==
    IF o.x >= NumTypes THEN Panicked(c, "index out of bounds")
    ELSE LET ty == types[o.x + 1]
             callee_arity == IF ty.return_type THEN 1 ELSE 0
         IN push_values(pop_values(c, ty.params), callee_arity)

\* Drop
arm_Drop(c, o) == pop_values(c, 1)

\* GetLocal(_)
arm_GetLocal(c, o) == push_values(c, 1)

\* SetLocal(_)
arm_SetLocal(c, o) == pop_values(c, 1)

\* I32Const(_) | I64Const(_) | F32Const(_) | F64Const(_)
arm_Const(c, o) == push_values(c, 1)

\* the binary operators (I32Add | ...)
arm_Binary(c, o) == push_values(pop_values(c, 2), 1)

\* the stores (I32Store(_, _) | ...)
arm_Store(c, o) == pop_values(c, 2)

(* --------------- reference: WebAssembly validation --------------------- *)
(* The validation algorithm of the WebAssembly specification (appendix,    *)
(* "Validation Algorithm"), over value counts instead of value types (no   *)
(* multi-value, no block parameters), with the structured reachability of  *)
(* the execution semantics beside it.                                      *)
(*   ok     the opcodes read so far are a prefix of a validated body       *)
(*   done   the function's closing end has been read                       *)
(*   depth  operand-stack depth, relative to function entry                *)
(*   ctrl   control frames: kind, start (depth at entry), arity (result    *)
(*          count), unreachable (the algorithm's flag), live_in (the       *)
(*          region's entry is reached by an execution), exit_live (an      *)
(*          execution leaves the region towards its end by a branch, or    *)
(*          by falling out of the then arm)                                *)
(*   live   the current program point is reached by some execution, each   *)
(*          condition and br_table index taken as free and calls as        *)
(*          returning                                                      *)
(*   max    largest depth at a live program point so far                   *)
(***************************************************************************)
RFrame(k, s, a, li) ==
    [kind |-> k, start |-> s, arity |-> a, unreachable |-> FALSE,
     live_in |-> li, exit_live |-> FALSE]

RefInit(arity) ==
    [ok |-> TRUE, done |-> FALSE, depth |-> 0,
     ctrl |-> << RFrame("func", 0, arity, TRUE) >>, live |-> TRUE, max |-> 0]

\* a body that is not validated: nothing else is kept
RInvalid(r) ==
    [ok |-> FALSE, done |-> FALSE, depth |-> 0, ctrl |-> <<>>, live |-> FALSE, max |-> 0]

RTop(r) == r.ctrl[Len(r.ctrl)]

\* pop_val, n times
RECURSIVE RPop(_, _)
RPop(r, n) ==
    IF ~r.ok \/ n = 0 THEN r
    ELSE IF r.depth = RTop(r).start
         THEN IF RTop(r).unreachable THEN r ELSE RInvalid(r)
    ELSE RPop([r EXCEPT !.depth = r.depth - 1], n - 1)

RPush(r, n) == IF ~r.ok THEN r ELSE [r EXCEPT !.depth = r.depth + n]

\* unreachable(): drop the frame's operands, set its flag
RUnreachable(r) ==
    IF ~r.ok THEN r
    ELSE [r EXCEPT !.depth = RTop(r).start,
                   !.ctrl[Len(r.ctrl)].unreachable = TRUE,
                   !.live = FALSE]

RLabelOk(r, l) == l < Len(r.ctrl)
RLabelFrame(r, l) == r.ctrl[Len(r.ctrl) - l]
\* label_types: a branch to a loop carries nothing
RLabelArity(r, l) ==
    IF RLabelFrame(r, l).kind = "loop" THEN 0 ELSE RLabelFrame(r, l).arity

\* a branch to label l is taken by an execution when the branch is live
RBranch(r, l) ==
    IF ~r.ok THEN r
    ELSE [r EXCEPT !.ctrl[Len(r.ctrl) - l].exit_live =
                       @ \/ (r.live /\ RLabelFrame(r, l).kind # "loop")]

RECURSIVE RBranchAll(_, _, _)
RBranchAll(r, targets, i) ==
    IF i > Len(targets) THEN r
    ELSE RBranchAll(RBranch(r, targets[i]), targets, i + 1)

RPushCtrl(r, k, a) ==
    IF ~r.ok THEN r
    ELSE [r EXCEPT !.ctrl = Append(r.ctrl, RFrame(k, r.depth, a, r.live))]

\* else: close the then arm (its results popped, nothing left), open the else arm
RElse(r) ==
    IF RTop(r).kind # "if" THEN RInvalid(r)
    ELSE LET p == RPop(r, RTop(r).arity)
         IN IF ~p.ok \/ p.depth # RTop(r).start THEN RInvalid(r)
            ELSE [p EXCEPT !.ctrl[Len(r.ctrl)] =
                               [kind |-> "else", start |-> RTop(r).start,
                                arity |-> RTop(r).arity, unreachable |-> FALSE,
                                live_in |-> RTop(r).live_in,
                                exit_live |-> RTop(r).exit_live \/ r.live],
                           !.live = RTop(r).live_in]

\* end: close the region (its results popped, nothing left), push its results
REnd(r) ==
    LET top == RTop(r)
        p == RPop(r, top.arity)
    IN IF ~p.ok \/ p.depth # top.start THEN RInvalid(r)
       ELSE IF top.kind = "if" /\ top.arity # 0 THEN RInvalid(r)
       ELSE [p EXCEPT !.ctrl = SubSeq(r.ctrl, 1, Len(r.ctrl) - 1),
                      !.depth = top.start + top.arity,
                      !.done = (top.kind = "func"),
                      !.live = IF top.kind = "if" THEN top.live_in
                               ELSE r.live \/ top.exit_live]

RSameArity(r, targets, d) ==
    \A i \in 1..Len(targets) :
        RLabelOk(r, targets[i]) /\ RLabelArity(r, targets[i]) = RLabelArity(r, d)

\* one opcode of the body
RDispatch(r, o) ==
    IF ~r.ok THEN r
    ELSE IF r.done THEN RInvalid(r)
    ELSE CASE o.name \in {"Block", "Loop"} ->
                RPushCtrl(r, IF o.name = "Loop" THEN "loop" ELSE "block", o.x)
           [] o.name = "If" -> RPushCtrl(RPop(r, 1), "if", o.x)
           [] o.name = "Else" -> RElse(r)
           [] o.name = "End" -> REnd(r)
           [] o.name = "Unreachable" -> RUnreachable(r)
           [] o.name = "Br" ->
                IF ~RLabelOk(r, o.x) THEN RInvalid(r)
                ELSE RUnreachable(RBranch(RPop(r, RLabelArity(r, o.x)), o.x))
           [] o.name = "BrIf" ->
                IF ~RLabelOk(r, o.x) THEN RInvalid(r)
                ELSE RBranch(RPush(RPop(RPop(r, 1), RLabelArity(r, o.x)),
                                   RLabelArity(r, o.x)), o.x)
           [] o.name = "BrTable" ->
                IF ~RLabelOk(r, o.x) \/ ~RSameArity(r, o.targets, o.x) THEN RInvalid(r)
                ELSE RUnreachable(RBranchAll(
                        RBranch(RPop(RPop(r, 1), RLabelArity(r, o.x)), o.x),
                        o.targets, 1))
           [] o.name = "Return" -> RUnreachable(RPop(r, r.ctrl[1].arity))
           [] o.name = "Call" ->
                IF o.x >= NumFuncs THEN RInvalid(r)
                ELSE LET ty == types[func_section[o.x + 1] + 1]
                     IN RPush(RPop(r, ty.params), IF ty.return_type THEN 1 ELSE 0)
           [] o.name = "CallIndirect" ->
                IF o.x >= NumTypes THEN RInvalid(r)
                ELSE LET ty == types[o.x + 1]
                     IN RPush(RPop(RPop(r, 1), ty.params),
                              IF ty.return_type THEN 1 ELSE 0)
           [] o.name \in {"Drop", "SetLocal"} -> RPop(r, 1)
           [] o.name \in {"I32Const", "GetLocal"} -> RPush(r, 1)
           [] o.name = "I32Add" -> RPush(RPop(r, 2), 1)
           [] o.name = "I32Store" -> RPop(r, 2)

\* The run has ended (by a return or a panic): what is kept is whether the
\* body was a validated one (or, for a panic, a prefix of one) and the
\* largest live depth.
RFinal(r, complete) ==
    IF ~r.ok \/ (complete /\ ~r.done) THEN RInvalid(r)
    ELSE [ok |-> TRUE, done |-> r.done, depth |-> 0, ctrl |-> <<>>,
          live |-> FALSE, max |-> r.max]

\* the opcode, then the depth of the point behind it
RStep(r, o) ==
    LET q == RDispatch(r, o)
    IN IF q.ok /\ q.live /\ q.depth > q.max THEN [q EXCEPT !.max = q.depth] ELSE q

(* --------------------------- the analysis ------------------------------ *)
\* Lines 135-151: a fresh Context with the implicit frame of the function,
\* for bodies of at most n opcodes.
InitLen(n) ==
    /\ len_bound = n
    /\ func_idx \in 0..(NumFuncs - 1)
    /\ debug_assertions \in BOOLEAN
    /\ pc = 0
    /\ ctx = push_frame(Context_new, Frame(FALSE, func_arity, func_arity, 0))
    /\ max_height = 0
    /\ status = "running"
    /\ panic = NoPanic
    /\ op = NoOp
    /\ ref = RefInit(func_arity)
    /\ code_section = <<>>
    /\ suspended = <<>>

Init == InitLen(MaxLen)

\* Lines 158-163: the panic of the sampling condition.  `&&` evaluates
\* ctx.frame(0) only when the height exceeds the maximum.
sample_panic(c, m) ==
    IF height(c) > m THEN frame_panic(c, 0) ELSE NoPanic

\* sample with the polymorphism test the wrong way round
sample_only_polymorphic(c, m) ==
    IF height(c) > m /\ frame(c, 0).is_polymorphic THEN height(c) ELSE m

\* sample without the polymorphism test
sample_any_frame(c, m) ==
    IF height(c) > m THEN height(c) ELSE m

\* Lines 158-163: the running maximum after the sampling.
sample(c, m) ==
    IF height(c) > m /\ ~frame(c, 0).is_polymorphic THEN height(c) ELSE m

\* an iteration of the loop that does not advance pc
Step_pc_stuck(o, c2) ==
    /\ status = "running"
    /\ pc < len_bound
    /\ op' = o
    /\ IF sample_panic(ctx, max_height) # NoPanic \/ c2.panic # NoPanic
       THEN /\ status' = "panicked"
            /\ panic' = IF sample_panic(ctx, max_height) # NoPanic
                        THEN sample_panic(ctx, max_height) ELSE c2.panic
            /\ ctx' = Context_new
            /\ ref' = RFinal(RStep(ref, o), FALSE)
            /\ UNCHANGED max_height
       ELSE /\ ctx' = c2
            /\ max_height' = sample(ctx, max_height)
            /\ ref' = RStep(ref, o)
            /\ UNCHANGED <<status, panic>>
    /\ UNCHANGED <<pc, func_idx, debug_assertions, len_bound, code_section, suspended>>

\* One iteration of the loop (lines 153-367) on opcode o, whose match arm
\* takes the context to c2.
Step(o, c2) ==
    /\ status = "running"
    /\ pc < len_bound
    /\ op' = o
    /\ LET sp == sample_panic(ctx, max_height)
           c3 == c2
           r2 == RStep(ref, o)
       IN IF sp # NoPanic \/ c3.panic # NoPanic
          THEN \* the panic unwinds: ctx is dropped, nothing is returned
               /\ status' = "panicked"
               /\ panic' = IF sp # NoPanic THEN sp ELSE c3.panic
               /\ ctx' = Context_new
               /\ ref' = RFinal(r2, FALSE)
               /\ UNCHANGED <<pc, max_height>>
          ELSE /\ ctx' = c3
               /\ max_height' = sample(ctx, max_height)
               /\ pc' = pc + 1
               /\ ref' = r2
               /\ UNCHANGED <<status, panic>>
    /\ UNCHANGED <<func_idx, debug_assertions, len_bound, code_section, suspended>>

\* the br_table target lists explored: none or one target beside the default
TargetLists == { <<>> } \cup { <<l>> : l \in Labels }

DoBlock ==
    \E n \in {"Block", "Loop", "If"}, ty \in BlockTypes :
        /\ Len(ctx.control_stack) <= MaxNest
        /\ LET o == Opc(n, ty) IN Step(o, arm_Block(ctx, o))

DoElse == LET o == Opc("Else", 0) IN Step(o, arm_Else(ctx, o))

DoEnd == LET o == Opc("End", 0) IN Step(o, arm_End(ctx, o))

DoUnreachable == LET o == Opc("Unreachable", 0) IN Step(o, arm_Unreachable(ctx, o))

DoBr == \E l \in Labels : LET o == Opc("Br", l) IN Step(o, arm_Br(ctx, o))

DoBrIf == \E l \in Labels : LET o == Opc("BrIf", l) IN Step(o, arm_BrIf(ctx, o))

DoBrTable ==
    \E l \in Labels, ts \in TargetLists :
        LET o == [name |-> "BrTable", x |-> l, targets |-> ts]
        IN Step(o, arm_BrTable(ctx, o))

DoReturn == LET o == Opc("Return", 0) IN Step(o, arm_Return(ctx, o))

DoCall ==
    \/ \E f \in 0..(NumFuncs - 1) : LET o == Opc("Call", f) IN Step(o, arm_Call(ctx, o))
    \/ \E t \in 0..(NumTypes - 1) :
           LET o == Opc("CallIndirect", t) IN Step(o, arm_Call(ctx, o))

DoDrop == LET o == Opc("Drop", 0) IN Step(o, arm_Drop(ctx, o))

DoGetLocal == LET o == Opc("GetLocal", 0) IN Step(o, arm_GetLocal(ctx, o))

DoSetLocal == LET o == Opc("SetLocal", 0) IN Step(o, arm_SetLocal(ctx, o))

DoConst == LET o == Opc("I32Const", 0) IN Step(o, arm_Const(ctx, o))

DoBinary == LET o == Opc("I32Add", 0) IN Step(o, arm_Binary(ctx, o))

DoStore == LET o == Opc("I32Store", 0) IN Step(o, arm_Store(ctx, o))

\* Lines 154-156 and 369: the body is exhausted (its length is pc),
\* max_height is returned and ctx is dropped.
Finish ==
    /\ status = "running"
    /\ status' = "returned"
    /\ ctx' = Context_new
    /\ ref' = RFinal(ref, TRUE)
    /\ UNCHANGED <<func_idx, debug_assertions, len_bound, pc, max_height, panic, op,
                   code_section, suspended>>

Next ==
    \/ DoBlock
    \/ DoElse
    \/ DoEnd
    \/ DoUnreachable
    \/ DoBr
    \/ DoBrIf
    \/ DoBrTable
    \/ DoReturn
    \/ DoCall
    \/ DoDrop
    \/ DoConst
    \/ DoBinary
    \/ DoStore
    \/ Finish

Spec == Init /\ [][Next]_vars

\* The same analysis over bodies two opcodes longer.
InitDeep == InitLen(MaxLen + 2)

SpecDeep == InitDeep /\ [][Next]_vars

\* The analysis over straight-line bodies: opcodes that push one value or
\* pop one value, and end.
InitStraight == InitLen(StraightLen)

NextStraight ==
    \/ DoGetLocal
    \/ DoSetLocal
    \/ DoConst
    \/ DoDrop
    \/ DoEnd
    \/ Finish

SpecStraight == InitStraight /\ [][NextStraight]_vars

(* ------------- the analysis of a body of the code section -------------- *)
\* Lines 132-133: body.code() of the function analysed.
opcodes == code_section[func_idx + 1]

\* Line 166: the match on the opcode.
arm(c, o) ==
    CASE o.name \in {"Block", "Loop", "If"} -> arm_Block(c, o)
      [] o.name = "Else" -> arm_Else(c, o)
      [] o.name = "End" -> arm_End(c, o)
      [] o.name = "Unreachable" -> arm_Unreachable(c, o)
      [] o.name = "Br" -> arm_Br(c, o)
      [] o.name = "BrIf" -> arm_BrIf(c, o)
      [] o.name = "BrTable" -> arm_BrTable(c, o)
      [] o.name = "Return" -> arm_Return(c, o)
      [] o.name \in {"Call", "CallIndirect"} -> arm_Call(c, o)
      [] o.name = "Drop" -> arm_Drop(c, o)
      [] o.name = "GetLocal" -> arm_GetLocal(c, o)
      [] o.name = "SetLocal" -> arm_SetLocal(c, o)
      [] o.name = "I32Const" -> arm_Const(c, o)
      [] o.name = "I32Add" -> arm_Binary(c, o)
      [] o.name = "I32Store" -> arm_Store(c, o)

\* One iteration of the loop (lines 153-367) on the opcode at pc.
DoOpcode ==
    /\ pc < Len(opcodes)
    /\ LET o == opcodes[pc + 1] IN Step(o, arm(ctx, o))

\* Lines 154-156 and 369: pc >= opcodes.elements().len(), max_height is
\* returned.
ReturnMaxHeight ==
    /\ pc >= Len(opcodes)
    /\ Finish

\* the opcode sequences over S of at most n opcodes
SeqsUpTo(S, n) == UNION { [1..k -> S] : k \in 0..n }

\* func_arity (lines 141-145) of function f
func_arity_of(f) == IF types[func_section[f + 1] + 1].return_type THEN 1 ELSE 0

\* Lines 135-151: the locals of a call max_stack_height(f, module) that has
\* pushed the implicit frame and dispatched nothing yet.
NewAnalysis(f) ==
    [func_idx |-> f, pc |-> 0,
     ctx |-> push_frame(Context_new,
                        Frame(FALSE, func_arity_of(f), func_arity_of(f), 0)),
     max_height |-> 0, status |-> "running", panic |-> NoPanic, op |-> NoOp,
     ref |-> RefInit(func_arity_of(f))]

\* the locals of the call that is taking the steps
Locals ==
    [func_idx |-> func_idx, pc |-> pc, ctx |-> ctx, max_height |-> max_height,
     status |-> status, panic |-> panic, op |-> op, ref |-> ref]

(* One call analysing a body of the code section alone.  The loop has no    *)
(* suspension point: a call that has started goes on to its return or its   *)
(* panic, which is the weak fairness of its steps.                          *)
SoloOpcodes ==
    { Opc("I32Const", 0), Opc("Loop", 0), Opc("Br", 0), Opc("BrIf", 0), Opc("End", 0) }

InitSolo ==
    /\ len_bound = SoloLen
    /\ func_idx \in 0..(NumFuncs - 1)
    /\ debug_assertions \in BOOLEAN
    /\ \E b \in SeqsUpTo(SoloOpcodes, SoloLen) :
           code_section = [g \in 1..NumFuncs |-> IF g = func_idx + 1 THEN b ELSE <<>>]
    /\ pc = 0
    /\ ctx = NewAnalysis(func_idx).ctx
    /\ max_height = 0
    /\ status = "running"
    /\ panic = NoPanic
    /\ op = NoOp
    /\ ref = NewAnalysis(func_idx).ref
    /\ suspended = <<>>

NextSolo ==
    \/ DoOpcode
    \/ ReturnMaxHeight

SpecSolo == InitSolo /\ [][NextSolo]_vars /\ WF_vars(NextSolo)

(* Three calls over one module, their steps interleaved in every order:     *)
(* two calls analyse the same function and the third analyses the other     *)
(* one.  Each call has its own locals (ctx, max_height, pc); the module is   *)
(* borrowed by all of them.  Switch hands the processor to another call.     *)
ParOpcodes == { Opc("I32Const", 0), Opc("Return", 0), Opc("End", 0) }

InitPar ==
    /\ len_bound = ParLen
    /\ func_idx \in 0..(NumFuncs - 1)
    /\ debug_assertions \in BOOLEAN
    /\ code_section \in [1..NumFuncs -> SeqsUpTo(ParOpcodes, ParLen)]
    /\ pc = 0
    /\ ctx = NewAnalysis(func_idx).ctx
    /\ max_height = 0
    /\ status = "running"
    /\ panic = NoPanic
    /\ op = NoOp
    /\ ref = NewAnalysis(func_idx).ref
    /\ suspended = << NewAnalysis(func_idx), NewAnalysis((func_idx + 1) % NumFuncs) >>

\* the call resumed goes on with the Context of the call that was running
resume_ctx_shared(a) == ctx

\* Line 135: ctx is a local of the call; the call resumed goes on with its own.
resume_ctx(a) == a.ctx

Switch ==
    \E i \in DOMAIN suspended :
        /\ suspended[i].status = "running"
        /\ func_idx' = suspended[i].func_idx
        /\ pc' = suspended[i].pc
        /\ ctx' = resume_ctx(suspended[i])
        /\ max_height' = suspended[i].max_height
        /\ status' = suspended[i].status
        /\ panic' = suspended[i].panic
        /\ op' = suspended[i].op
        /\ ref' = suspended[i].ref
        /\ suspended' = [suspended EXCEPT ![i] = Locals]
        /\ UNCHANGED <<debug_assertions, len_bound, code_section>>

NextPar ==
    \/ DoOpcode
    \/ ReturnMaxHeight
    \/ Switch

SpecPar == InitPar /\ [][NextPar]_vars


(* ------------------------------ claims --------------------------------- *)
Running == status = "running"
Returned == status = "returned"
PanickedRun == status = "panicked"

\* C1 (soundness, no under-count): when the analysis of a validated body
\* has returned, the height returned is at least the operand-stack depth at
\* every program point of the body that some execution reaches.
C1_NoUnderCount == (Returned /\ ref.ok) => max_height >= ref.max

\* C2 (totality on validated input): the analysis never panics while the
\* opcodes read, the panicking one included, are a prefix of a validated
\* body.  The calls are left to C6 (the analyser resolves the callee's
\* signature differently there), so that a panic found here is not one of
\* a call popping the wrong parameter count.
C2_NoPanicOnValidated ==
    ~(PanickedRun /\ ref.ok /\ op.name \notin {"Call", "CallIndirect"})

\* The step dispatches an opcode named n (it is not the return of the result,
\* which leaves op as it is).
Dispatched(n) == Running /\ status' # "returned" /\ op'.name = n

\* C3 (straight-line exactness): in a body of push-1 and pop-1 opcodes that
\* never pops below 0, once the closing end is dispatched the running
\* maximum, which is the height returned, equals the largest value of
\* pushes minus pops over the prefixes of the body.
C3_StraightLineExact ==
    [][ (Dispatched("End") /\ Len(ctx.control_stack) = 1 /\ ref.ok
            /\ status' = "running")
        => max_height' = ref.max ]_vars

\* C3 witness: three pushes and three pops, then the closing end, give 3.
C3_Witness ==
    /\ Running /\ op.name = "End" /\ pc = 7
    /\ ref.ok /\ ref.done /\ ref.max = 3 /\ max_height = 3

\* C4 (dead code does not raise the maximum): once a divergent instruction
\* has made a frame polymorphic, no instruction dispatched while that frame
\* is still open changes the running maximum.
C4_DeadCodeNotCounted ==
    [][ (Running /\ status' = "running" /\ ref'.ok
            /\ \E i \in DOMAIN ctx.control_stack : ctx.control_stack[i].is_polymorphic)
        => max_height' = max_height ]_vars

\* C5 (return): a reachable return of a validated body pops the function's
\* own arity, marks the innermost frame polymorphic, and the height held
\* before it is counted in the maximum.
C5_Return ==
    [][ (Dispatched("Return") /\ ref.ok /\ ref.live /\ ref'.ok)
        => /\ status' = "running"
           /\ ctx'.height = ctx.height - func_arity
           /\ frame(ctx', 0).is_polymorphic
           /\ max_height' >= ctx.height ]_vars

\* The signature declared for function index f: the type the function
\* section refers to.
DeclaredSignature(f) == types[func_section[f + 1] + 1]

Results(ty) == IF ty.return_type THEN 1 ELSE 0

\* C6 (direct call effect): a reachable call(f) of a validated body changes
\* the height by minus the parameter count of function f plus its result
\* count, and the height before the call is counted in the maximum.
C6_CallEffect ==
    [][ (Dispatched("Call") /\ ref.ok /\ ref.live /\ ref'.ok)
        => /\ status' = "running"
           /\ ctx'.height = ctx.height - DeclaredSignature(op'.x).params
                               + Results(DeclaredSignature(op'.x))
           /\ max_height' >= ctx.height ]_vars

\* C7 (indirect call operand layout): a reachable call_indirect(t) of a
\* validated body pops the parameters of type t and the table-index
\* operand, then pushes the result of t.
C7_CallIndirectLayout ==
    [][ (Dispatched("CallIndirect") /\ ref.ok /\ ref.live /\ ref'.ok)
        => /\ status' = "running"
           /\ ctx'.height = ctx.height - (types[op'.x + 1].params + 1)
                               + Results(types[op'.x + 1]) ]_vars

\* a branch depth of opcode o that is not below the number of frames of c
OutOfRange(o, c) ==
    \/ o.x >= Len(c.control_stack)
    \/ \E i \in DOMAIN o.targets : o.targets[i] >= Len(c.control_stack)

\* C8 (out-of-range branch depth is fatal): a br, a br_if or a br_table one
\* of whose depths (the default or a listed target) is not below the number
\* of frames aborts the analysis.
C8_OutOfRangeFatal ==
    [][ (Running /\ status' # "returned" /\ op'.name \in {"Br", "BrIf", "BrTable"}
            /\ OutOfRange(op', ctx))
        => status' = "panicked" ]_vars

\* C9 (frame floor): in every state of an analysis that has not aborted, a
\* non-polymorphic innermost frame has height >= start_height.
C9_FrameFloor ==
    (Running /\ Len(ctx.control_stack) > 0 /\ ~frame(ctx, 0).is_polymorphic)
        => ctx.height >= frame(ctx, 0).start_height

\* C10 (br_table consistency check): a br_table whose depths are all in
\* range and one of whose targets has a branch_arity different from the
\* default target's aborts the analysis.
C10_BrTableCheck ==
    [][ (Dispatched("BrTable") /\ ~OutOfRange(op', ctx)
            /\ \E i \in DOMAIN op'.targets :
                   frame(ctx, op'.targets[i]).branch_arity
                       # frame(ctx, op'.x).branch_arity)
        => status' = "panicked" ]_vars

\* the calls of max_stack_height in progress or ended, the running one first
Analyses == << Locals >> \o suspended

\* what a call that has ended has given its caller: a height, or a panic
Outcome(a) ==
    IF a.status = "returned" THEN << "returned", a.max_height >>
    ELSE << "panicked", 0 >>

C12_PolymorphicIsDead ==
    (Running /\ ref.ok /\ Len(ctx.control_stack) > 0 /\ frame(ctx, 0).is_polymorphic)
        => ~ref.live

\* the change of the number of frames the claim gives opcode o
FrameDelta(o) ==
    IF o.name \in {"Block", "Loop", "If"} THEN 1
    ELSE IF o.name = "End" THEN -1
    ELSE 0

\* the step dispatches an opcode and the analysis goes on
Goes == Running /\ status' = "running" /\ pc' = pc + 1

\* C13 (frame-stack nesting): the analysis starts with height 0 and the one
\* frame of the function; every opcode dispatched changes the number of
\* frames by +1 (block, loop, if), -1 (end) or 0 (any other); while the
\* opcodes read are a prefix of a validated body the number of frames is 1
\* plus the number of regions opened and not closed, and it is 0 after the
\* function's closing end.
C13_FrameNesting ==
    [][ /\ (Running /\ pc = 0)
            => /\ ctx.height = 0
               /\ ctx.control_stack = << Frame(FALSE, func_arity, func_arity, 0) >>
        /\ Goes => Len(ctx'.control_stack) = Len(ctx.control_stack) + FrameDelta(op')
        /\ (Goes /\ ref'.ok) => Len(ctx'.control_stack) = Len(ref'.ctrl)
        /\ (Goes /\ ref'.ok /\ ref'.done) => Len(ctx'.control_stack) = 0 ]_vars

\* C13 witness: a region was opened and closed, then the function's closing
\* end has left no frame.
C13_Witness ==
    /\ Running /\ pc = 3 /\ op.name = "End" /\ ref.ok /\ ref.done
    /\ Len(ctx.control_stack) = 0

\* C14 (end effect): end pops the innermost frame F, sets the height to
\* F.start_height + F.end_arity whatever it was and whether or not F was
\* polymorphic, and leaves every outer frame as it was.
C14_EndEffect ==
    [][ (Dispatched("End") /\ Len(ctx.control_stack) > 0)
        => /\ status' = "running"
           /\ ctx'.height = frame(ctx, 0).start_height + frame(ctx, 0).end_arity
           /\ ctx'.control_stack =
                  SubSeq(ctx.control_stack, 1, Len(ctx.control_stack) - 1) ]_vars

\* C14 witness: a block with a result whose body is dead from its first
\* opcode (block, unreachable, end) has been closed: the height is the
\* block's result and the function's frame is not polymorphic.
C14_Witness ==
    /\ Running /\ pc = 3 /\ op.name = "End" /\ ref.ok /\ ~ref.live
    /\ Len(ctx.control_stack) = 1 /\ ~frame(ctx, 0).is_polymorphic
    /\ ctx.height = 1

\* C15 (frame arities): every frame has end_arity and branch_arity in
\* {0, 1}; block and if push a frame with branch_arity = end_arity = 1
\* exactly when a result type is declared, loop one with branch_arity 0;
\* the frame pushed is not polymorphic and its start_height is the height at
\* the push; end_arity, branch_arity and start_height of a frame do not
\* change while it is on the stack.
C15_FrameArities ==
    [][ Goes =>
        /\ \A i \in DOMAIN ctx'.control_stack :
               /\ ctx'.control_stack[i].end_arity \in {0, 1}
               /\ ctx'.control_stack[i].branch_arity \in {0, 1}
        /\ op'.name \in {"Block", "Loop", "If"}
               => frame(ctx', 0) =
                      Frame(FALSE,
                            IF op'.x = 1 THEN 1 ELSE 0,
                            IF op'.x = 1 /\ op'.name # "Loop" THEN 1 ELSE 0,
                            ctx.height)
        /\ \A i \in DOMAIN ctx.control_stack \cap DOMAIN ctx'.control_stack :
               /\ ctx'.control_stack[i].end_arity = ctx.control_stack[i].end_arity
               /\ ctx'.control_stack[i].branch_arity = ctx.control_stack[i].branch_arity
               /\ ctx'.control_stack[i].start_height = ctx.control_stack[i].start_height
      ]_vars

\* C15 witness: a loop with a result type was pushed at height 1.
C15_Witness ==
    /\ Running /\ op.name = "Loop"
    /\ frame(ctx, 0) = Frame(FALSE, 1, 0, 1)

\* br_if(d) as the claim has it: dispatched with depth d in range in a
\* non-polymorphic frame that holds the branch values and the condition, it
\* lowers the height by branch_arity of the frame at depth d plus 1 and
\* leaves every frame as it was.
BrIfEffect ==
    (/\ Dispatched("BrIf") /\ op'.x < Len(ctx.control_stack)
     /\ ~frame(ctx, 0).is_polymorphic
     /\ ctx.height >= frame(ctx, 0).start_height + frame(ctx, op'.x).branch_arity + 1)
    => /\ status' = "running"
       /\ ctx'.height = ctx.height - (frame(ctx, op'.x).branch_arity + 1)
       /\ ctx'.control_stack = ctx.control_stack

\* br(d) as the claim has it: a reachable br of a validated body pops
\* branch_arity of the frame at depth d and sets is_polymorphic on the
\* innermost frame and on no other.
BrEffect ==
    (Dispatched("Br") /\ ref.ok /\ ref.live /\ ref'.ok)
    => /\ status' = "running"
       /\ ctx'.height = ctx.height - frame(ctx, op'.x).branch_arity
       /\ ctx'.control_stack =
              [ctx.control_stack EXCEPT ![Len(ctx.control_stack)].is_polymorphic = TRUE]

\* C16 (conditional versus unconditional branch): br_if pops the branch
\* arity and the condition and marks nothing; br pops the branch arity and
\* marks the innermost frame only.
C16_Branches == [][ BrIfEffect /\ BrEffect ]_vars

\* the first half of C16 alone
C16_BrIfOnly == [][ BrIfEffect ]_vars

\* the second half of C16 where a value is above the frame's start_height
C16_BrAboveStart ==
    [][ (Len(ctx.control_stack) > 0 /\ ctx.height > frame(ctx, 0).start_height)
        => BrEffect ]_vars

\* C17 (running-maximum rule): max_height starts at 0 and never decreases;
\* an iteration of the loop raises it to the height held before the opcode
\* is dispatched when that height exceeds it and the innermost frame is not
\* polymorphic, and leaves it as it is otherwise (so it is the largest
\* height held at such a point so far, or 0); the return changes nothing, so
\* the height the last opcode produced is not sampled.
C17_RunningMaximum ==
    [][ /\ (Running /\ pc = 0) => max_height = 0
        /\ max_height' >= max_height
        /\ Goes => max_height' =
                       IF ctx.height > max_height /\ ~frame(ctx, 0).is_polymorphic
                       THEN ctx.height ELSE max_height
        /\ (Running /\ status' = "returned") => max_height' = max_height ]_vars

\* C17 witness: a sampling point in a polymorphic frame where the height
\* exceeds a maximum raised before.
C17_Witness ==
    /\ Running /\ Len(ctx.control_stack) > 0 /\ frame(ctx, 0).is_polymorphic
    /\ max_height = 1 /\ ctx.height = 2

\* the opcodes whose arm is one pop_values and nothing else
PopOnly == {"Drop", "I32Store"}

\* C18 (pops in a polymorphic frame never fail): an opcode that pops (a
\* drop, a store, a binary operator), dispatched while the innermost frame
\* is polymorphic, does not abort; one that only pops does not leave the
\* height below that frame's start_height, and with height equal to
\* start_height it changes neither the height nor the frames.
C18_PolymorphicPops ==
    [][ (/\ Running /\ status' # "returned" /\ op'.name \in PopOnly \cup {"I32Add"}
         /\ Len(ctx.control_stack) > 0 /\ frame(ctx, 0).is_polymorphic)
        => /\ status' = "running"
           /\ op'.name \in PopOnly =>
                  /\ ctx'.height >= frame(ctx, 0).start_height
                  /\ (ctx.height = frame(ctx, 0).start_height) => ctx' = ctx ]_vars

\* the second half of C18 alone: a pop at height = start_height in a
\* polymorphic frame changes nothing
C18_AtStartOnly ==
    [][ (/\ Running /\ status' # "returned" /\ op'.name \in PopOnly
         /\ Len(ctx.control_stack) > 0 /\ frame(ctx, 0).is_polymorphic
         /\ ctx.height = frame(ctx, 0).start_height)
        => (status' = "running" /\ ctx' = ctx) ]_vars

\* C19 (the if condition is consumed): when the end of a reachable if
\* without else whose arm does not diverge is dispatched in a validated
\* body, the height is the operand-stack depth before the condition was
\* pushed plus the if's end_arity, which is the real depth after the region.
C19_IfConditionConsumed ==
    [][ (/\ Dispatched("End") /\ ref.ok /\ ref'.ok /\ ref.live
         /\ RTop(ref).kind = "if" /\ ~RTop(ref).unreachable)
        => ctx'.height = RTop(ref).start + RTop(ref).arity ]_vars

\* C20 (single-pass termination): pc never moves backwards and no step
\* moves it by more than 1; an iteration that goes on dispatches the opcode
\* at index pc and moves pc to the next index, for loop and branch opcodes
\* too; pc never exceeds the length L of the body; and the call ends: it
\* returns max_height or aborts.
C20_SinglePass ==
    /\ [][ /\ pc' \in {pc, pc + 1}
           /\ (Running /\ status' = "running")
                  => (pc' = pc + 1 /\ op' = opcodes[pc + 1])
           /\ pc' <= Len(opcodes) ]_vars
    /\ <>(status # "running")

\* C20 witness: the body loop, i32.const, br 0, end was analysed to its end
\* in four iterations and the height was returned.
C20_Witness ==
    /\ Returned /\ pc = 4 /\ Len(opcodes) = 4
    /\ opcodes[1].name = "Loop" /\ opcodes[3].name = "Br"

====
